---- MODULE Spec2Model ----
(***************************************************************************)
(* A model of the retrieval-augmented answering pipeline of ai/rag.py:      *)
(* scheme detection, scheme-aware filtering of the retrieved chunks,        *)
(* distance-to-confidence scoring, context assembly and the generation      *)
(* call.  Python strings are sequences of one-character strings, floats     *)
(* are exact rationals [num, den], and the embedding model, the vector      *)
(* index and the language model are nondeterministic environments.         *)
(***************************************************************************)
EXTENDS Integers, Sequences, FiniteSets, TLC

VARIABLES
    pc,                   \* position in answer_with_rag / in a function application
    question,             \* the question (sequence of characters)
    enhanced_query,       \* retrieve_chunks: the enriched query sent to the embedder
    retrieved,            \* the result mapping returned by collection.query
    docs, metas, dists,   \* the three parallel sequences of answer_with_rag
    detected_scheme_key,  \* detect_scheme(question)
    confidence,           \* compute_confidence(dists)
    context,              \* build_context(docs, metas)
    prompt,               \* the prompt handed to the language model
    answer,               \* the stripped completion
    result,               \* the returned package, or NoResult
    raised,               \* the exception that left answer_with_rag, or NoException
    calls,                \* log of the capability calls made, in order
    response,             \* what the /query endpoint sends back
    text, max_chars, overlap,  \* the arguments of chunk_text
    start, chunks         \* the locals of chunk_text

\* The state of chunk_text.
chunkVars == << text, max_chars, overlap, start, chunks >>

vars == << pc, question, enhanced_query, retrieved, docs, metas, dists,
           detected_scheme_key, confidence, context, prompt, answer, result,
           raised, calls, response, chunkVars >>

----------------------------------------------------------------------------
(* Python values *)

\* Python's None where a string is expected (no character is "None").
None == << "None" >>

\* bool(s) for an Optional[str]: None and "" are falsy.
Truthy(s) == s # None /\ s # << >>

UPPERCASE == <<"A","B","C","D","E","F","G","H","I","J","K","L","M","N","O","P","Q","R","S","T","U","V","W","X","Y","Z">>
LOWERCASE == <<"a","b","c","d","e","f","g","h","i","j","k","l","m","n","o","p","q","r","s","t","u","v","w","x","y","z">>

\* str.lower() on one character (ASCII letters; every other character is kept).
LowerChar(c) ==
    IF \E i \in 1..Len(UPPERCASE) : UPPERCASE[i] = c
    THEN LOWERCASE[CHOOSE i \in 1..Len(UPPERCASE) : UPPERCASE[i] = c]
    ELSE c

\* str.lower()
Lower(s) == [i \in 1..Len(s) |-> LowerChar(s[i])]

\* Python's `sub in s` for strings: sub occurs as a contiguous substring of s.
Contains(s, sub) ==
    \E i \in 0..(Len(s) - Len(sub)) : SubSeq(s, i + 1, i + Len(sub)) = sub

\* s.startswith(sub)
StartsWith(s, sub) == Len(sub) <= Len(s) /\ SubSeq(s, 1, Len(sub)) = sub

\* str.replace(old, new) for a non-empty old: every non-overlapping occurrence,
\* scanning from the left.
RECURSIVE Replace(_, _, _)
Replace(s, old, new) ==
    IF s = << >> THEN << >>
    ELSE IF StartsWith(s, old)
         THEN new \o Replace(SubSeq(s, Len(old) + 1, Len(s)), old, new)
         ELSE << Head(s) >> \o Replace(Tail(s), old, new)

\* str.strip(): leading and trailing whitespace removed.
IsSpace(c) == c \in {" ", "\t", "\n"}
RECURSIVE LStrip(_)
LStrip(s) == IF s # << >> /\ IsSpace(Head(s)) THEN LStrip(Tail(s)) ELSE s
RECURSIVE RStrip(_)
RStrip(s) ==
    IF s # << >> /\ IsSpace(s[Len(s)]) THEN RStrip(SubSeq(s, 1, Len(s) - 1)) ELSE s
Strip(s) == LStrip(RStrip(s))

----------------------------------------------------------------------------
(* Scheme detection *)

SCHEME_HINTS ==
  <<
  [ key |-> <<"p","m","j","d","y">>,
    keywords |-> <<
        <<"p","m","j","d","y">>,
        <<"j","a","n"," ","d","h","a","n">>,
        <<"p","r","a","d","h","a","n"," ","m","a","n","t","r","i"," ","j","a","n"," ","d","h","a","n">>,
        <<"p","r","a","d","h","a","n"," ","m","a","n","t","r","i"," ","j","a","n"," ","d","h","a","n"," ","y","o","j","a","n","a">> >> ],
  [ key |-> <<"n","s","p">>,
    keywords |-> <<
        <<"n","s","p">>,
        <<"s","c","h","o","l","a","r","s","h","i","p">>,
        <<"n","a","t","i","o","n","a","l"," ","s","c","h","o","l","a","r","s","h","i","p">>,
        <<"n","a","t","i","o","n","a","l"," ","s","c","h","o","l","a","r","s","h","i","p"," ","p","o","r","t","a","l">> >> ],
  [ key |-> <<"a","y","u","s","h","m","a","n">>,
    keywords |-> <<
        <<"a","y","u","s","h","m","a","n">>,
        <<"p","m","j","a","y">>,
        <<"p","m","-","j","a","y">>,
        <<"p","r","a","d","h","a","n"," ","m","a","n","t","r","i"," ","j","a","n"," ","a","r","o","g","y","a">>,
        <<"a","y","u","s","h","m","a","n"," ","b","h","a","r","a","t">> >> ],
  [ key |-> <<"p","m","a","y","-","g">>,
    keywords |-> <<
        <<"p","m","a","y","-","g">>,
        <<"p","m","a","y"," ","g">>,
        <<"r","u","r","a","l"," ","h","o","u","s","i","n","g">>,
        <<"g","r","a","m","i","n"," ","a","w","a","s">>,
        <<"p","r","a","d","h","a","n"," ","m","a","n","t","r","i"," ","a","w","a","s"," ","y","o","j","a","n","a"," ","g","r","a","m","i","n">> >> ],
  [ key |-> <<"p","m","a","y","-","u">>,
    keywords |-> <<
        <<"p","m","a","y","-","u">>,
        <<"p","m","a","y"," ","u">>,
        <<"u","r","b","a","n"," ","h","o","u","s","i","n","g">>,
        <<"p","r","a","d","h","a","n"," ","m","a","n","t","r","i"," ","a","w","a","s"," ","y","o","j","a","n","a"," ","u","r","b","a","n">> >> ],
  [ key |-> <<"m","u","d","r","a">>,
    keywords |-> <<
        <<"m","u","d","r","a">>,
        <<"m","u","d","r","a"," ","l","o","a","n">>,
        <<"p","r","a","d","h","a","n"," ","m","a","n","t","r","i"," ","m","u","d","r","a"," ","y","o","j","a","n","a">>,
        <<"p","m","m","y">> >> ]
  >>

\* list(SCHEME_HINTS.keys()), in insertion order
SchemeKeys == [i \in 1..Len(SCHEME_HINTS) |-> SCHEME_HINTS[i].key]

\* The two loops of detect_scheme over the lower-cased question q: schemes in
\* table order, each scheme's keywords in list order, first hit returns.
RECURSIVE detect_from(_, _, _)
detect_from(q, si, ki) ==
    IF si > Len(SCHEME_HINTS) THEN None
    ELSE IF ki > Len(SCHEME_HINTS[si].keywords) THEN detect_from(q, si + 1, 1)
    ELSE IF Contains(q, SCHEME_HINTS[si].keywords[ki]) THEN SCHEME_HINTS[si].key
    ELSE detect_from(q, si, ki + 1)

\* detect_scheme without the lower-casing of the question.
detect_scheme_case_sensitive(q) == detect_from(q, 1, 1)

\* detect_scheme returning the last matching scheme of the table, not the first.
RECURSIVE detect_last_from(_, _)
detect_last_from(q, si) ==
    IF si < 1 THEN None
    ELSE IF \E ki \in 1..Len(SCHEME_HINTS[si].keywords) :
                Contains(q, SCHEME_HINTS[si].keywords[ki])
         THEN SCHEME_HINTS[si].key
         ELSE detect_last_from(q, si - 1)
detect_scheme_last_match(q) == detect_last_from(Lower(q), Len(SCHEME_HINTS))

detect_scheme(q) == detect_from(Lower(q), 1, 1)

\* _normalize_source: lower-case, drop every ".pdf", "_" and " " become "-".
_normalize_source(src) ==
    Replace(Replace(Replace(Lower(src), <<".","p","d","f">>, << >>),
                    <<"_">>, <<"-">>),
            <<" ">>, <<"-">>)

----------------------------------------------------------------------------
(* Bounded inputs *)

\* Pieces a question is put together from.
QuestionFragments ==
  {
    <<"W","h","a","t"," ","i","s"," ">>,
    <<"P","M","J","D","Y">>,
    <<"J","a","n"," ","D","h","a","n">>,
    <<"s","c","h","o","l","a","r","s","h","i","p"," ">>,
    <<"t","r","a","n","s","p","o","r","t">>,
    <<"P","M","-","J","A","Y">>,
    <<"p","m","a","y">>,
    <<"-","G">>,
    <<" ","u">>,
    <<"M","u","d","r","a"," ","l","o","a","n">>,
    <<"h","o","u","s","i","n","g">>
  }

\* A question is the concatenation of at most MaxFragments fragments.
MaxFragments == 2

RECURSIVE Concatenations(_)
Concatenations(n) ==
    IF n = 0 THEN { << >> }
    ELSE LET shorter == Concatenations(n - 1)
         IN  shorter \cup { q \o f : q \in shorter, f \in QuestionFragments }

Questions == Concatenations(MaxFragments)

----------------------------------------------------------------------------
(* Floats, modelled as exact rationals in lowest terms with den > 0 *)

RECURSIVE GCD(_, _)
GCD(a, b) == IF b = 0 THEN a ELSE GCD(b, a % b)

Abs(n) == IF n < 0 THEN -n ELSE n

\* n / d for d # 0
Rat(n, d) ==
    LET g == GCD(Abs(n), Abs(d))
        s == IF d < 0 THEN -1 ELSE 1
    IN  [num |-> (s * n) \div g, den |-> (s * d) \div g]

Zero == [num |-> 0, den |-> 1]
One == [num |-> 1, den |-> 1]

RAdd(x, y) == Rat(x.num * y.den + y.num * x.den, x.den * y.den)
RDivInt(x, n) == Rat(x.num, x.den * n)
RLess(x, y) == x.num * y.den < y.num * x.den
RLeq(x, y) == x.num * y.den <= y.num * x.den
RMin(x, y) == IF RLess(y, x) THEN y ELSE x
RMax(x, y) == IF RLess(x, y) THEN y ELSE x

\* round(x, ndigits) with scale = 10^ndigits: the nearest multiple of 1/scale,
\* a tie going to the even multiple.
Round(x, scale) ==
    LET n == x.num * scale
        q == n \div x.den
        r == n % x.den
        up == IF 2 * r > x.den THEN TRUE
              ELSE IF 2 * r < x.den THEN FALSE
              ELSE q % 2 = 1
    IN  Rat(IF up THEN q + 1 ELSE q, scale)

\* sum(xs) for a list of floats
RECURSIVE Sum(_)
Sum(xs) == IF xs = << >> THEN Zero ELSE RAdd(Head(xs), Sum(Tail(xs)))

\* sorted(xs, reverse=True)
RECURSIVE InsertDesc(_, _)
InsertDesc(x, sorted) ==
    IF sorted = << >> THEN << x >>
    ELSE IF RLess(Head(sorted), x) THEN << x >> \o sorted
    ELSE << Head(sorted) >> \o InsertDesc(x, Tail(sorted))
RECURSIVE SortedDesc(_)
SortedDesc(xs) ==
    IF xs = << >> THEN << >> ELSE InsertDesc(Head(xs), SortedDesc(Tail(xs)))

Min2(a, b) == IF a < b THEN a ELSE b

----------------------------------------------------------------------------
(* Scoring *)

\* What 1.0 / 0.0 raises.
ZeroDivisionError == [exception |-> "ZeroDivisionError"]

IsError(v) == "exception" \in DOMAIN v

\* 1.0 / (1.0 + d)
distance_to_similarity(d) ==
    IF d.den + d.num = 0 THEN ZeroDivisionError ELSE Rat(d.den, d.den + d.num)

\* [distance_to_similarity(d) for d in distances], element by element
Similarities(distances) ==
    [i \in 1..Len(distances) |-> distance_to_similarity(distances[i])]

\* The list comprehension raises when one of its elements does.
Raises(sims) == \E i \in 1..Len(sims) : IsError(sims[i])

\* compute_confidence averaging every similarity, not the top three.
compute_confidence_all(distances) ==
    IF distances = << >> THEN Zero
    ELSE LET sims == Similarities(distances)
         IN  IF Raises(sims) THEN ZeroDivisionError
             ELSE RMax(Zero, RMin(One, RDivInt(Sum(sims), Len(sims))))

\* compute_confidence without the guard for the empty list: sum([]) / 0.
compute_confidence_no_guard(distances) ==
    LET sims == Similarities(distances)
        top_sims == SubSeq(SortedDesc(sims), 1, Min2(3, Len(sims)))
    IN  IF Raises(sims) \/ Len(sims) = 0 THEN ZeroDivisionError
        ELSE RMax(Zero, RMin(One, RDivInt(Sum(top_sims), Len(top_sims))))

compute_confidence(distances) ==
    IF distances = << >> THEN Zero
    ELSE LET sims == Similarities(distances)
         IN  IF Raises(sims) THEN ZeroDivisionError
             ELSE LET top_sims == SubSeq(SortedDesc(sims), 1, Min2(3, Len(sims)))
                      avg_top == RDivInt(Sum(top_sims), Len(top_sims))
                  IN  RMax(Zero, RMin(One, avg_top))

----------------------------------------------------------------------------
(* Filtering and context assembly *)

\* dict.get(key, default)
Get(d, key, default) == IF key \in DOMAIN d THEN d[key] ELSE default

Min3(a, b, c) == Min2(a, Min2(b, c))

\* The loop of filter_by_scheme over zip(docs, metas, dists), from index i on:
\* acc collects the chunks whose normalized source contains scheme_key.
RECURSIVE filter_loop(_, _, _, _, _, _)
filter_loop(ds, ms, xs, scheme_key, i, acc) ==
    IF i > Min3(Len(ds), Len(ms), Len(xs)) THEN acc
    ELSE LET src == _normalize_source(Get(ms[i], "source", << >>))
         IN  IF Contains(src, scheme_key)
             THEN filter_loop(ds, ms, xs, scheme_key, i + 1,
                              [docs |-> Append(acc.docs, ds[i]),
                               metas |-> Append(acc.metas, ms[i]),
                               dists |-> Append(acc.dists, xs[i])])
             ELSE filter_loop(ds, ms, xs, scheme_key, i + 1, acc)

NoChunks == [docs |-> << >>, metas |-> << >>, dists |-> << >>]

\* filter_by_scheme without the fallback to the original results.
filter_by_scheme_no_fallback(ds, ms, xs, scheme_key) ==
    IF ~Truthy(scheme_key) THEN [docs |-> ds, metas |-> ms, dists |-> xs]
    ELSE filter_loop(ds, ms, xs, scheme_key, 1, NoChunks)

filter_by_scheme(ds, ms, xs, scheme_key) ==
    IF ~Truthy(scheme_key) THEN [docs |-> ds, metas |-> ms, dists |-> xs]
    ELSE LET filtered == filter_loop(ds, ms, xs, scheme_key, 1, NoChunks)
         IN  IF filtered.docs # << >> THEN filtered
             ELSE [docs |-> ds, metas |-> ms, dists |-> xs]

DIGITS == <<"0","1","2","3","4","5","6","7","8","9">>

\* str(n) for a non-negative integer
RECURSIVE IntToStr(_)
IntToStr(n) ==
    IF n < 10 THEN << DIGITS[n + 1] >>
    ELSE IntToStr(n \div 10) \o << DIGITS[(n % 10) + 1] >>

\* sep.join(parts)
RECURSIVE Join(_, _)
Join(sep, parts) ==
    IF parts = << >> THEN << >>
    ELSE IF Len(parts) = 1 THEN parts[1]
    ELSE parts[1] \o sep \o Join(sep, Tail(parts))

\* One block of build_context: "Source: {source} (chunk {idx})\n{snippet}\n"
ContextBlock(doc, meta) ==
    <<"S","o","u","r","c","e",":"," ">> \o Get(meta, "source", <<"u","n","k","n","o","w","n">>)
    \o <<" ","(","c","h","u","n","k"," ">>
    \o (IF "chunk_index" \in DOMAIN meta THEN IntToStr(meta.chunk_index) ELSE <<"?">>)
    \o <<")", "\n">> \o Strip(doc) \o <<"\n">>

build_context(ds, ms) ==
    Join(<<"\n","-","-","-","\n">>,
         [i \in 1..Min2(Len(ds), Len(ms)) |-> ContextBlock(ds[i], ms[i])])

\* _scheme_from_source: the first scheme key, in table order, that the normalized
\* source contains.
_scheme_from_source(source) ==
    LET norm == _normalize_source(source)
        hits == {i \in 1..Len(SchemeKeys) : Contains(norm, SchemeKeys[i])}
    IN  IF hits = {} THEN None
        ELSE SchemeKeys[CHOOSE i \in hits : \A j \in hits : i <= j]

\* SCHEME_DISPLAY_NAMES[key]; the table's dashes are written as "-" here.
SCHEME_DISPLAY_NAMES(key) ==
    CASE key = SchemeKeys[1] -> "Pradhan Mantri Jan Dhan Yojana (PMJDY)"
      [] key = SchemeKeys[2] -> "National Scholarship Portal (NSP)"
      [] key = SchemeKeys[3] -> "Ayushman Bharat - PM-JAY"
      [] key = SchemeKeys[4] -> "Pradhan Mantri Awas Yojana - Gramin (PMAY-G)"
      [] key = SchemeKeys[5] -> "Pradhan Mantri Awas Yojana - Urban (PMAY-U)"
      [] key = SchemeKeys[6] -> "Pradhan Mantri Mudra Yojana (MUDRA)"

\* The display name of answer_with_rag: the detected scheme's, else the one
\* inferred from the top source, else "Unknown / Mixed".
display_scheme_name(key, ms) ==
    IF Truthy(key) THEN SCHEME_DISPLAY_NAMES(key)
    ELSE IF ms # << >> /\ Truthy(_scheme_from_source(Get(ms[1], "source", << >>)))
         THEN SCHEME_DISPLAY_NAMES(_scheme_from_source(Get(ms[1], "source", << >>)))
         ELSE "Unknown / Mixed"

\* The literal the prompt tells the model to reply with when the context has
\* no answer.
REFUSAL == "The information is not available in the provided documents."

\* The f-string of answer_with_rag: the fixed text with the question, the display
\* name and the context put in.
build_prompt(q, display, ctx) ==
    [ question |-> q,
      detected_scheme |-> display,
      rules |-> << "Use ONLY the facts from the CONTEXT. Do NOT guess or add outside knowledge.",
                   "Answer in **simple, conversational English**, like you're explaining to a friend.",
                   "Start with a short 2-3 line summary.",
                   "Then give clear bullet points for key eligibility / benefits / rules.",
                   "If the answer is not present in the context, reply exactly:",
                   REFUSAL >>,
      context |-> ctx ]

\* The enrichment retrieve_chunks appends to the query for each scheme.
Enrichment(key) ==
    CASE key = SchemeKeys[1] -> "PMJDY Pradhan Mantri Jan Dhan Yojana bank account life cover eligibility rules"
      [] key = SchemeKeys[2] -> "NSP National Scholarship Portal scholarship eligibility income criteria student benefits"
      [] key = SchemeKeys[3] -> "Ayushman Bharat PMJAY Pradhan Mantri Jan Arogya Yojana health insurance eligibility coverage"
      [] key = SchemeKeys[4] -> "PMAY-G Pradhan Mantri Awas Yojana Gramin rural housing eligibility SECC 2011 criteria"
      [] key = SchemeKeys[5] -> "PMAY-U Pradhan Mantri Awas Yojana Urban urban housing subsidy eligibility"
      [] key = SchemeKeys[6] -> "MUDRA loan Pradhan Mantri Mudra Yojana PMMY loan eligibility shishu kishore tarun"
      [] OTHER -> ""

\* enhanced_query of retrieve_chunks: the query, and what is appended to it.
enhance(query) == [query |-> query, appended |-> Enrichment(detect_scheme(query))]

----------------------------------------------------------------------------
(* The environment: the indexed chunks, the index's answers, the failures *)

\* The chunks of the "schemes" collection, as embed.py stores them: the text and
\* {"source", "chunk_index"}.
Corpus ==
  { [document |-> <<" ","J","a","n"," ","D","h","a","n","\n">>, metadata |-> [source |-> <<"p","m","j","d","y","_","f","a","q">>, chunk_index |-> 0]],
    [document |-> <<"Z","e","r","o"," ","b","a","l","a","n","c","e">>, metadata |-> [source |-> <<"P","M","J","D","Y"," ","S","c","h","e","m","e",".","p","d","f">>, chunk_index |-> 12]],
    [document |-> <<"S","h","i","s","h","u"," ">>, metadata |-> [source |-> <<"m","u","d","r","a","_","f","a","q">>, chunk_index |-> 0]],
    [document |-> <<"M","e","r","i","t">>, metadata |-> [source |-> <<"n","s","p">>, chunk_index |-> 1]] }

\* Distances the index reports (squared L2, the collection's default metric).
DistanceValues == { Rat(0, 1), Rat(1, 10), Rat(1, 2), Rat(2, 1) }

\* The most chunks one query returns in the model (the code asks for k = 20).
MaxChunks == 3

\* k of retrieve_chunks(question, k=20)
K == 20

Ascending(xs) == \A i \in 1..(Len(xs) - 1) : RLeq(xs[i], xs[i + 1])

\* What collection.query(..., include=[documents, metadatas, distances]) can
\* return for one query embedding: n <= k distinct chunks, nearest first.  The
\* "distances" entry is there, or absent (answer_with_rag provides for both).
IndexResults ==
    UNION { LET chunkSeqs == {s \in [1..n -> Corpus] :
                                 \A i, j \in 1..n : i # j => s[i] # s[j]}
                distSeqs == {xs \in [1..n -> DistanceValues] : Ascending(xs)}
            IN  { [documents |-> << [i \in 1..n |-> s[i].document] >>,
                   metadatas |-> << [i \in 1..n |-> s[i].metadata] >>,
                   distances |-> << xs >>] : s \in chunkSeqs, xs \in distSeqs }
                \cup
                { [documents |-> << [i \in 1..n |-> s[i].document] >>,
                   metadatas |-> << [i \in 1..n |-> s[i].metadata] >>] : s \in chunkSeqs }
          : n \in 0..Min2(K, Min2(MaxChunks, Cardinality(Corpus))) }

\* What a capability raises when it is unreachable or errors.
CapabilityFailures == { "ConnectionError", "TimeoutError" }

\* Texts the language model returns (message.content, before .strip()).
Completions == { <<" ","o","k","\n">>, <<"n","/","a">> }

\* Questions put to answer_with_rag.
PipelineQuestions ==
  { <<"W","h","a","t"," ","i","s"," ","t","h","e"," ","e","l","i","g","i","b","i","l","i","t","y"," ","f","o","r"," ","P","M","J","D","Y","?">>,
    <<"M","u","d","r","a"," ","l","o","a","n">>,
    <<"r","u","r","a","l"," ","h","o","u","s","i","n","g">>,
    <<"h","e","l","l","o">> }

\* A local that is not assigned yet.
NotSet == [unset |-> TRUE]

----------------------------------------------------------------------------
(* answer_with_rag, step by step *)

CallLog(capability, outcome) == [capability |-> capability, outcome |-> outcome]

Raise(e) ==
    /\ raised' = [exception |-> e]
    /\ pc' = "raised"

\* retrieve_chunks up to embed_model.encode: the query is enriched and embedded.
Embed ==
    /\ pc = "start"
    /\ enhanced_query' = enhance(question)
    /\ \/ /\ calls' = Append(calls, CallLog("embed", "ok"))
          /\ pc' = "query"
          /\ UNCHANGED raised
       \/ \E e \in CapabilityFailures :
            /\ calls' = Append(calls, CallLog("embed", e))
            /\ Raise(e)
    /\ UNCHANGED << chunkVars, response, question, retrieved, docs, metas, dists, detected_scheme_key,
                    confidence, context, prompt, answer, result >>

\* retrieve_chunks: collection.query, whose result is returned as it is.
Query ==
    /\ pc = "query"
    /\ \/ /\ calls' = Append(calls, CallLog("query", "ok"))
          /\ retrieved' \in IndexResults
          /\ pc' = "unpack"
          /\ UNCHANGED raised
       \/ \E e \in CapabilityFailures :
            /\ calls' = Append(calls, CallLog("query", e))
            /\ Raise(e)
            /\ UNCHANGED retrieved
    /\ UNCHANGED << chunkVars, response, question, enhanced_query, docs, metas, dists, detected_scheme_key,
                    confidence, context, prompt, answer, result >>

\* retrieved.get("distances", [[]])[0] or []
UnpackedDistances(r) ==
    LET first == Get(r, "distances", << << >> >>)[1]
    IN  IF first = << >> THEN << >> ELSE first

\* Step 1: the three sequences are taken out of the result.
Unpack ==
    /\ pc = "unpack"
    /\ docs' = retrieved.documents[1]
    /\ metas' = retrieved.metadatas[1]
    /\ dists' = UnpackedDistances(retrieved)
    /\ pc' = "filter"
    /\ UNCHANGED << chunkVars, response, question, enhanced_query, retrieved, detected_scheme_key,
                    confidence, context, prompt, answer, result, raised, calls >>

\* Step 2: scheme-aware filtering.
Filter ==
    /\ pc = "filter"
    /\ detected_scheme_key' = detect_scheme(question)
    /\ LET kept == filter_by_scheme(docs, metas, dists, detect_scheme(question))
       IN  /\ docs' = kept.docs
           /\ metas' = kept.metas
           /\ dists' = kept.dists
    /\ pc' = "score"
    /\ UNCHANGED << chunkVars, response, question, enhanced_query, retrieved, confidence, context,
                    prompt, answer, result, raised, calls >>

\* meta["similarity_score"] = score
WithScore(meta, score) ==
    [k \in DOMAIN meta \cup {"similarity_score"} |->
        IF k = "similarity_score" THEN score ELSE meta[k]]

\* for meta, sim in zip(metas, similarities): meta["similarity_score"] = round(sim, 4)
Annotated(ms, sims, xs) ==
    [i \in 1..Len(ms) |->
        IF i <= Len(sims) THEN WithScore(ms[i], Round(sims[i], 10000)) ELSE ms[i]]

\* Step 3: every metadata map gets its chunk's similarity.
Score ==
    /\ pc = "score"
    /\ LET similarities == Similarities(dists)
       IN  IF Raises(similarities)
           THEN /\ Raise(ZeroDivisionError.exception)
                /\ UNCHANGED metas
           ELSE /\ metas' = Annotated(metas, similarities, dists)
                /\ pc' = "confidence"
                /\ UNCHANGED raised
    /\ UNCHANGED << chunkVars, response, question, enhanced_query, retrieved, docs, dists,
                    detected_scheme_key, confidence, context, prompt, answer,
                    result, calls >>

\* Step 4: the overall confidence.
Confidence ==
    /\ pc = "confidence"
    /\ LET c == compute_confidence(dists)
       IN  IF IsError(c)
           THEN /\ Raise(c.exception)
                /\ UNCHANGED confidence
           ELSE /\ confidence' = c
                /\ pc' = "context"
                /\ UNCHANGED raised
    /\ UNCHANGED << chunkVars, response, question, enhanced_query, retrieved, docs, metas, dists,
                    detected_scheme_key, context, prompt, answer, result, calls >>

\* Steps 5 and 6: the context, the display name and the prompt.
Context ==
    /\ pc = "context"
    /\ context' = build_context(docs, metas)
    /\ prompt' = build_prompt(question,
                              display_scheme_name(detected_scheme_key, metas),
                              build_context(docs, metas))
    /\ pc' = "generate"
    /\ UNCHANGED << chunkVars, response, question, enhanced_query, retrieved, docs, metas, dists,
                    detected_scheme_key, confidence, answer, result, raised, calls >>

\* The generation call that answers with the bare context when the model fails.
Generate_with_fallback ==
    /\ pc = "generate"
    /\ \/ \E completion \in Completions :
            /\ calls' = Append(calls, CallLog("generate", "ok"))
            /\ answer' = Strip(completion)
       \/ \E e \in CapabilityFailures :
            /\ calls' = Append(calls, CallLog("generate", e))
            /\ answer' = context
    /\ pc' = "return"
    /\ UNCHANGED << chunkVars, response, question, enhanced_query, retrieved, docs, metas, dists,
                    detected_scheme_key, confidence, context, prompt, result, raised >>

\* client_llm.chat.completions.create and the .strip() of what it returns.
Generate ==
    /\ pc = "generate"
    /\ \/ \E completion \in Completions :
            /\ calls' = Append(calls, CallLog("generate", "ok"))
            /\ answer' = Strip(completion)
            /\ pc' = "return"
            /\ UNCHANGED raised
       \/ \E e \in CapabilityFailures :
            /\ calls' = Append(calls, CallLog("generate", e))
            /\ Raise(e)
            /\ UNCHANGED answer
    /\ UNCHANGED << chunkVars, response, question, enhanced_query, retrieved, docs, metas, dists,
                    detected_scheme_key, confidence, context, prompt, result >>

\* The returned dictionary.
Return ==
    /\ pc = "return"
    /\ result' = [ question |-> question,
                   answer |-> answer,
                   sources |-> metas,
                   detected_scheme |-> detected_scheme_key,
                   confidence |-> Round(confidence, 10000) ]
    /\ pc' = "done"
    /\ UNCHANGED << chunkVars, response, question, enhanced_query, retrieved, docs, metas, dists,
                    detected_scheme_key, confidence, context, prompt, answer,
                    raised, calls >>

\* The fields of QueryResponse, the response_model of /query.
QueryResponse == { "question", "answer", "sources", "detected_scheme" }

\* What FastAPI sends for a returned dictionary under response_model=QueryResponse:
\* the model's fields, every other key dropped.
Serialize(value) == [k \in QueryResponse |-> value[k]]

\* query_api, once answer_with_rag has returned its dictionary.
QueryApi ==
    /\ pc = "done"
    /\ response' = Serialize(result)
    /\ pc' = "responded"
    /\ UNCHANGED << chunkVars, question, enhanced_query, retrieved, docs, metas,
                    dists, detected_scheme_key, confidence, context, prompt, answer,
                    result, raised, calls >>

Unassigned ==
    /\ enhanced_query = NotSet
    /\ retrieved = NotSet
    /\ docs = << >>
    /\ metas = << >>
    /\ detected_scheme_key = NotSet
    /\ confidence = NotSet
    /\ context = NotSet
    /\ prompt = NotSet
    /\ answer = NotSet
    /\ result = NotSet
    /\ raised = NotSet
    /\ calls = << >>
    /\ response = NotSet

\* chunk_text is not running.
NotChunking ==
    /\ text = << >>
    /\ max_chars = 0
    /\ overlap = 0
    /\ start = 0
    /\ chunks = << >>

Init ==
    /\ pc = "start"
    /\ NotChunking
    /\ question \in PipelineQuestions
    /\ dists = << >>
    /\ Unassigned

Next ==
    \/ Embed
    \/ Query
    \/ Unpack
    \/ Filter
    \/ Score
    \/ Confidence
    \/ Context
    \/ Generate
    \/ Return
    \/ QueryApi

Spec == Init /\ [][Next]_vars

----------------------------------------------------------------------------
(* The pure functions applied to bounded inputs *)

\* Distances a caller may hand to compute_confidence (List[float]).
DistanceDomain ==
    { Rat(-2, 1), Rat(-1, 1), Rat(-1, 2), Rat(0, 1), Rat(1, 10), Rat(1, 2), Rat(2, 1) }

\* The longest distance list drawn from DistanceDomain.
MaxDistances == 4

\* The distances of the documented scenario: [0.1, 0.3, 0.5, 0.9, 1.2].
ScenarioDistances == << Rat(1, 10), Rat(3, 10), Rat(1, 2), Rat(9, 10), Rat(6, 5) >>

DistanceLists ==
    UNION { [1..n -> DistanceDomain] : n \in 0..MaxDistances }
    \cup { ScenarioDistances,
           << Rat(6, 5), Rat(1, 10), Rat(9, 10), Rat(1, 2), Rat(3, 10) >> }

InitConfidence ==
    /\ pc = "confidence_input"
    /\ NotChunking
    /\ question = << >>
    /\ dists \in DistanceLists
    /\ Unassigned

\* compute_confidence(dists)
ApplyConfidence ==
    /\ pc = "confidence_input"
    /\ confidence' = compute_confidence(dists)
    /\ pc' = "confidence_output"
    /\ UNCHANGED << chunkVars, response, question, enhanced_query, retrieved, docs, metas, dists,
                    detected_scheme_key, context, prompt, answer, result, raised,
                    calls >>

SpecConfidence == InitConfidence /\ [][ApplyConfidence]_vars

InitDetect ==
    /\ pc = "detect_input"
    /\ NotChunking
    /\ question \in Questions
    /\ dists = << >>
    /\ Unassigned

\* detect_scheme(question)
ApplyDetect ==
    /\ pc = "detect_input"
    /\ detected_scheme_key' = detect_scheme(question)
    /\ pc' = "detect_output"
    /\ UNCHANGED << chunkVars, response, question, enhanced_query, retrieved, docs, metas, dists,
                    confidence, context, prompt, answer, result, raised, calls >>

SpecDetect == InitDetect /\ [][ApplyDetect]_vars

----------------------------------------------------------------------------
(* chunk_text of ai/extract.py *)

Max2(a, b) == IF a > b THEN a ELSE b

\* text[lo:hi] for 0 <= lo: the characters lo+1 .. min(hi, len(text)).
Slice(s, lo, hi) == SubSeq(s, lo + 1, Min2(hi, Len(s)))

\* The next start taken one character too far back.
next_start_one_back(end_pos, ov) == Max2(0, end_pos - ov - 1)

\* start = max(0, end - overlap)
next_start(end_pos, ov) == Max2(0, end_pos - ov)

\* The characters texts are made of: a letter and a blank.
TextChars == { "a", " " }

\* The longest text, the largest max_chars and the largest overlap drawn.
MaxTextLength == 4
MaxMaxChars == 3
MaxOverlap == 3

\* The defaults of chunk_text, and the length of a text chunked under them.
DEFAULT_MAX_CHARS == 1000
DEFAULT_OVERLAP == 200
LongTextLength == 1800

InitChunk ==
    /\ pc = "chunk_loop"
    /\ \/ /\ text \in UNION { [1..n -> TextChars] : n \in 0..MaxTextLength }
          /\ max_chars \in 1..MaxMaxChars
          /\ overlap \in 0..MaxOverlap
       \/ /\ text = [i \in 1..LongTextLength |-> IF i % 7 = 0 THEN " " ELSE "a"]
          /\ max_chars = DEFAULT_MAX_CHARS
          /\ overlap = DEFAULT_OVERLAP
    /\ start = 0
    /\ chunks = << >>
    /\ question = << >>
    /\ dists = << >>
    /\ Unassigned

\* One iteration of the while loop.  Where the loop does not end, the list of
\* chunks grows until memory is exhausted; the model stops it one chunk past
\* the number of characters, which a loop that advances never reaches.
ChunkIterate ==
    /\ pc = "chunk_loop"
    /\ start < Len(text)
    /\ Len(chunks) <= Len(text)
    /\ LET end_pos == start + max_chars
           chunk == Strip(Slice(text, start, end_pos))
       IN  /\ chunks' = IF chunk # << >> THEN Append(chunks, chunk) ELSE chunks
           /\ start' = next_start(end_pos, overlap)
    /\ UNCHANGED << pc, text, max_chars, overlap, response, question, enhanced_query,
                    retrieved, docs, metas, dists, detected_scheme_key, confidence,
                    context, prompt, answer, result, raised, calls >>

\* The loop condition fails and chunks is returned.
ChunkReturn ==
    /\ pc = "chunk_loop"
    /\ start >= Len(text)
    /\ pc' = "chunk_done"
    /\ UNCHANGED << chunkVars, response, question, enhanced_query, retrieved, docs,
                    metas, dists, detected_scheme_key, confidence, context, prompt,
                    answer, result, raised, calls >>

NextChunk == ChunkIterate \/ ChunkReturn

\* The loop keeps running while it can: no step of chunk_text waits on anything.
SpecChunk == InitChunk /\ [][NextChunk]_vars /\ WF_vars(NextChunk)

----------------------------------------------------------------------------
(* Properties *)

\* What answer_with_rag hands to filter_by_scheme.
Unfiltered ==
    [docs |-> retrieved.documents[1],
     metas |-> retrieved.metadatas[1],
     dists |-> UnpackedDistances(retrieved)]

Filtered == [docs |-> docs, metas |-> metas, dists |-> dists]

\* The positions of answer_with_rag after filter_by_scheme has returned and
\* before the generation call.
AfterFilter == { "score", "confidence", "context", "generate" }

\* C1: filter_by_scheme never turns a non-empty document sequence into an empty
\* one, for any scheme key (None included): when no chunk's normalized source
\* contains the key the unfiltered triple comes back, so build_context never
\* receives an empty filtered set of a non-empty retrieval.
C1_FailOpen ==
    /\ pc = "score" =>
         /\ Unfiltered.docs # << >> => docs # << >>
         /\ ( /\ Truthy(detected_scheme_key)
              /\ \A i \in 1..Len(Unfiltered.metas) :
                    ~Contains(_normalize_source(Unfiltered.metas[i].source),
                              detected_scheme_key) )
            => Filtered = Unfiltered
    /\ pc = "context" => (Unfiltered.docs # << >> => docs # << >>)

\* The fallback happens: a scheme is detected, chunks were retrieved, none of
\* them is of that scheme, and all of them are kept.
C1_Witness ==
    /\ pc = "score"
    /\ Truthy(detected_scheme_key)
    /\ Len(Unfiltered.docs) >= 2
    /\ \A i \in 1..Len(Unfiltered.metas) :
          ~Contains(_normalize_source(Unfiltered.metas[i].source), detected_scheme_key)
    /\ docs = Unfiltered.docs

\* C2: after unpacking, after filtering, at scoring and at context assembly the
\* three sequences have the same length and position i of each describes the
\* same retrieved chunk, also when the result has no or empty distances.
C2_Aligned ==
    pc \in { "filter" } \cup AfterFilter =>
        /\ Len(docs) = Len(metas)
        /\ Len(metas) = Len(dists)
        /\ \A i \in 1..Len(docs) :
              \E j \in 1..Len(Unfiltered.docs) :
                 /\ docs[i] = Unfiltered.docs[j]
                 /\ metas[i].source = Unfiltered.metas[j].source
                 /\ metas[i].chunk_index = Unfiltered.metas[j].chunk_index
                 /\ dists[i] = Unfiltered.dists[j]

\* Two letters that differ at most in case.
SameLetter(a, b) ==
    a = b \/ \E i \in 1..Len(UPPERCASE) : {a, b} = {UPPERCASE[i], LOWERCASE[i]}

\* kw occurs in q as a substring, case ignored.
OccursIgnoringCase(q, kw) ==
    \E i \in 0..(Len(q) - Len(kw)) : \A j \in 1..Len(kw) : SameLetter(q[i + j], kw[j])

\* Scheme number si of the table has a keyword occurring in q.
HasKeyword(q, si) ==
    \E ki \in 1..Len(SCHEME_HINTS[si].keywords) :
        OccursIgnoringCase(q, SCHEME_HINTS[si].keywords[ki])

\* C3, as stated: whenever a keyword of scheme S occurs in the question,
\* detect_scheme returns S's key.
C3_AnyKeywordWins ==
    pc = "detect_output" =>
        \A si \in 1..Len(SCHEME_HINTS) :
            HasKeyword(question, si) => detected_scheme_key = SCHEME_HINTS[si].key

\* C3, amended: whenever a keyword of scheme S occurs in the question and no
\* keyword of a scheme that precedes S in the table does, detect_scheme returns
\* S's key.
C3_KeywordWinsUnlessPreceded ==
    pc = "detect_output" =>
        \A si \in 1..Len(SCHEME_HINTS) :
            ( /\ HasKeyword(question, si)
              /\ \A sj \in 1..(si - 1) : ~HasKeyword(question, sj) )
            => detected_scheme_key = SCHEME_HINTS[si].key

\* A question with a capital letter in its only keyword is classified.
C3_Witness ==
    /\ pc = "detect_output"
    /\ question = <<"M","u","d","r","a"," ","l","o","a","n">>
    /\ detected_scheme_key = SCHEME_HINTS[6].key

\* C4: detect_scheme returns the key of the first scheme, in table order, with a
\* keyword occurring in the question (case ignored), and None exactly when no
\* keyword of the table occurs in it.
C4_FirstMatch ==
    pc = "detect_output" =>
        LET matching == {si \in 1..Len(SCHEME_HINTS) : HasKeyword(question, si)}
        IN  /\ detected_scheme_key = None <=> matching = {}
            /\ matching # {} =>
                 detected_scheme_key =
                     SCHEME_HINTS[CHOOSE si \in matching : \A sj \in matching : si <= sj].key

\* Keywords of two schemes occur in the question and the earlier scheme wins.
C4_Witness ==
    /\ pc = "detect_output"
    /\ HasKeyword(question, 2)
    /\ HasKeyword(question, 6)
    /\ detected_scheme_key = SCHEME_HINTS[2].key

\* C5: compute_confidence gives 0.0 for the empty list and, for every list of
\* distances, returns (it does not raise) a value in [0, 1].
C5_ConfidenceInRange ==
    pc = "confidence_output" =>
        /\ dists = << >> => confidence = Zero
        /\ ~IsError(confidence)
        /\ RLeq(Zero, confidence)
        /\ RLeq(confidence, One)

\* 1 / (1 + d), for d # -1
OneOverOnePlus(d) == Rat(d.den, d.den + d.num)

RECURSIVE SumOver(_, _)
SumOver(xs, indices) ==
    IF indices = {} THEN Zero
    ELSE LET i == CHOOSE i \in indices : TRUE
         IN  RAdd(xs[i], SumOver(xs, indices \ {i}))

Clamp(x) == IF RLess(x, Zero) THEN Zero ELSE IF RLess(One, x) THEN One ELSE x

\* xs with its elements at i and i + 1 exchanged
Swapped(xs, i) ==
    [k \in 1..Len(xs) |-> IF k = i THEN xs[i + 1] ELSE IF k = i + 1 THEN xs[i] ELSE xs[k]]

\* C6: for a non-empty list of distances (on which 1/(1+d) is defined) the
\* confidence is the mean of the min(3, n) largest values of 1/(1+d), clamped to
\* [0, 1]; exchanging two neighbours of the list does not change it; and the
\* distances [0.1, 0.3, 0.5, 0.9, 1.2] give 0.782 to three decimals.
C6_MeanOfTopThree ==
    ( /\ pc = "confidence_output"
      /\ dists # << >>
      /\ \A i \in 1..Len(dists) : dists[i].den + dists[i].num # 0 )
    => LET sims == [i \in 1..Len(dists) |-> OneOverOnePlus(dists[i])]
           n == Min2(3, Len(dists))
       IN  /\ \E top \in SUBSET (1..Len(dists)) :
                 /\ Cardinality(top) = n
                 /\ \A i \in top : \A j \in (1..Len(dists)) \ top : RLeq(sims[j], sims[i])
                 /\ confidence = Clamp(RDivInt(SumOver(sims, top), n))
           /\ \A i \in 1..(Len(dists) - 1) :
                 compute_confidence(Swapped(dists, i)) = confidence
           /\ dists = ScenarioDistances => Round(confidence, 1000) = Rat(782, 1000)

\* The documented scenario is computed.
C6_Witness ==
    /\ pc = "confidence_output"
    /\ dists = ScenarioDistances
    /\ Round(confidence, 1000) = Rat(782, 1000)
    /\ Round(confidence, 10000) = Rat(7817, 10000)

\* C7: every metadata map of the returned package's sources has a
\* similarity_score, which is 1/(1+d) of that chunk's distance rounded to four
\* decimals.
C7_SourcesScored ==
    pc = "done" =>
        \A i \in 1..Len(result.sources) :
            /\ "similarity_score" \in DOMAIN result.sources[i]
            /\ \E j \in 1..Len(Unfiltered.dists) :
                  /\ Unfiltered.metas[j].source = result.sources[i].source
                  /\ Unfiltered.metas[j].chunk_index = result.sources[i].chunk_index
                  /\ Unfiltered.dists[j].den + Unfiltered.dists[j].num # 0
                  /\ result.sources[i].similarity_score
                        = Round(OneOverOnePlus(Unfiltered.dists[j]), 10000)

\* C8: a capability call that fails is the last call made (nothing is retried,
\* nothing is called after it, so no generation follows a retrieval failure),
\* its exception is the one that leaves answer_with_rag, and no package is
\* returned; no capability is called twice.
C8_FailurePropagates ==
    /\ \A i \in 1..Len(calls) :
          calls[i].outcome # "ok" =>
              /\ i = Len(calls)
              /\ pc = "raised"
              /\ raised = [exception |-> calls[i].outcome]
              /\ result = NotSet
    /\ \A i, j \in 1..Len(calls) : i # j => calls[i].capability # calls[j].capability
    /\ pc \in { "return", "done" } =>
          /\ Len(calls) = 3
          /\ \A i \in 1..3 : calls[i].outcome = "ok"

\* The generation call fails after a retrieval that succeeded.
C8_Witness ==
    /\ pc = "raised"
    /\ Len(calls) = 3
    /\ calls[3].capability = "generate"
    /\ calls[3].outcome = "TimeoutError"
    /\ raised = [exception |-> "TimeoutError"]
    /\ result = NotSet

\* The retrieval has returned and filtering has left no chunk.
ZeroChunks ==
    /\ retrieved # NotSet
    /\ pc \notin { "unpack", "filter" }
    /\ docs = << >>

\* C9: with zero chunks after filtering answer_with_rag does not fail on its
\* own (only a failing generation call ends it), the context is the empty
\* string, the prompt carries the literal refusal instruction, the generation
\* capability is called exactly once, and the package has no sources and
\* confidence 0.0.
C9_EmptyEvidence ==
    ZeroChunks =>
        /\ pc = "raised" =>
              /\ calls[Len(calls)].capability = "generate"
              /\ calls[Len(calls)].outcome # "ok"
        /\ pc \in { "generate", "return", "done" } \/ calls[Len(calls)].capability = "generate" =>
              /\ context = << >>
              /\ \E r \in 1..Len(prompt.rules) : prompt.rules[r] = REFUSAL
              /\ prompt.context = << >>
        /\ pc \in { "return", "done" } =>
              Cardinality({i \in 1..Len(calls) : calls[i].capability = "generate"}) = 1
        /\ pc = "done" =>
              /\ result.sources = << >>
              /\ result.confidence = Zero

\* A package is returned for a retrieval without chunks.
C9_Witness ==
    /\ pc = "done"
    /\ retrieved.documents[1] = << >>
    /\ result.sources = << >>
    /\ result.confidence = Zero
    /\ Len(calls) = 3

\* The normalization as the claim words it: lower-cased, a trailing ".pdf"
\* stripped, every whitespace character and underscore replaced by "-".
NormalizedAsWorded(src) ==
    LET s == Lower(src)
        n == Len(s)
        stem == IF n >= 4 /\ SubSeq(s, n - 3, n) = <<".","p","d","f">>
                THEN SubSeq(s, 1, n - 4) ELSE s
    IN  [i \in 1..Len(stem) |-> IF IsSpace(stem[i]) \/ stem[i] = "_" THEN "-" ELSE stem[i]]

\* The elements of xs at the positions in indices, in their order.
RECURSIVE Pick(_, _, _)
Pick(xs, indices, i) ==
    IF i > Len(xs) THEN << >>
    ELSE (IF i \in indices THEN << xs[i] >> ELSE << >>) \o Pick(xs, indices, i + 1)

\* C10: filter_by_scheme returns its inputs unchanged for the key None, and
\* otherwise, when the normalized source of at least one chunk contains the
\* key, exactly the chunks at those positions, in order, in all three sequences.
C10_ExactlyMatching ==
    pc = "score" =>
        LET matching == {i \in 1..Len(Unfiltered.metas) :
                            Contains(NormalizedAsWorded(Unfiltered.metas[i].source),
                                     detected_scheme_key)}
        IN  /\ detected_scheme_key = None => Filtered = Unfiltered
            /\ (detected_scheme_key # None /\ matching # {}) =>
                  /\ docs = Pick(Unfiltered.docs, matching, 1)
                  /\ metas = Pick(Unfiltered.metas, matching, 1)
                  /\ dists = Pick(Unfiltered.dists, matching, 1)

\* C11: the response of /query carries every field of the package that
\* answer_with_rag returned for the question: question, answer, sources,
\* detected_scheme and confidence.
C11_ResponseCarriesPackage ==
    pc = "responded" =>
        \A k \in { "question", "answer", "sources", "detected_scheme", "confidence" } :
            /\ k \in DOMAIN result
            /\ k \in DOMAIN response
            /\ response[k] = result[k]

\* The condition under which chunk_text is claimed to terminate.
OverlapBelowMaxChars == 0 <= overlap /\ overlap < max_chars

\* C12: when 0 <= overlap < max_chars (the defaults 1000 and 200 included),
\* every iteration of chunk_text's loop strictly increases start, the loop ends
\* with start >= len(text), and every emitted chunk is non-empty and at most
\* max_chars characters long.
C12_ChunkTextTerminates ==
    /\ [][ (pc = "chunk_loop" /\ pc' = "chunk_loop" /\ OverlapBelowMaxChars)
              => start' > start ]_vars
    /\ []( (pc \in { "chunk_loop", "chunk_done" } /\ OverlapBelowMaxChars) =>
             \A i \in 1..Len(chunks) :
                 chunks[i] # << >> /\ Len(chunks[i]) <= max_chars )
    /\ (pc = "chunk_loop" /\ OverlapBelowMaxChars)
          ~> (pc = "chunk_done" /\ start >= Len(text))

\* chunk_text has returned several overlapping chunks.
C12_Witness ==
    /\ pc = "chunk_done"
    /\ OverlapBelowMaxChars
    /\ overlap >= 1
    /\ Len(chunks) >= 3
    /\ start >= Len(text)

====
